---------------------------- MODULE Spec2Model ----------------------------
(***************************************************************************)
(* State-machine model of the 8-ball pool simulation in src/main.c:        *)
(* setup_table / reset_game, the event branches of handle_input, and the   *)
(* physics step update().                                                  *)
(*                                                                         *)
(* Numbers.  The program computes in IEEE single precision.  The model     *)
(* computes in fixed point: a length or a velocity component is an integer *)
(* number of 1/Scale pixels, and every quotient or scaled product is       *)
(* rounded toward zero (TruncDiv).  A float that holds NaN is modelled by  *)
(* the ball's isNaN flag: update() writes NaN into pos.x, pos.y, vel.x and *)
(* vel.y of both balls of a pair at once (0/0 on lines 296-313), and every *)
(* later comparison that reads such a ball is false, as IEEE 754 has it.   *)
(* While isNaN holds, the integer fields pos and vel carry no meaning.     *)
(***************************************************************************)
EXTENDS Integers, Sequences, FiniteSets, TLC

\* ----------------------------------------------------------------- constants
SCREEN_WIDTH == 1000
SCREEN_HEIGHT == 500
TABLE_WIDTH == 900
TABLE_HEIGHT == 450
BALL_RADIUS == 15
BALL_DIAMETER == BALL_RADIUS * 2
NUM_BALLS == 16
NUM_POCKETS == 6
POCKET_RADIUS == 30
EIGHT_BALL == 8

\* Fixed-point resolution: units per pixel.
Scale == 100

\* FRICTION 0.992f, as a number of thousandths.
FRICTION_PER_1000 == 992
\* CUE_POWER_MULTIPLIER 0.15f, as a number of hundredths.
CUE_POWER_PER_100 == 15
\* MIN_VELOCITY 0.1f, in units.
MIN_VELOCITY == Scale \div 10
\* BALL_DIAMETER * 0.88f, in units (26.4 pixels).
ball_offset == (BALL_DIAMETER * 88 * Scale) \div 100

\* ------------------------------------------------------------------- bounds
\* Shots accepted between two resets.
MaxShots == 2

\* Mouse positions (window pixels) that a click may report.
MousePoints ==
    { <<495, 74>>, <<478, 396>>, <<930, 60>>, <<986, 250>>, <<863, 478>> }

BallIds == 0 .. (NUM_BALLS - 1)

VARIABLES
    gBalls,         \* Ball gBalls[NUM_BALLS]
    gPockets,       \* Pocket gPockets[6]
    gCurrentState,  \* GameState gCurrentState
    shots,          \* shots accepted since the last reset (bounds the model)
    lastOp,         \* history: the event handled last
    prev            \* history: game state and active flags before that event

vars == <<gBalls, gPockets, gCurrentState, shots, lastOp, prev>>

\* ------------------------------------------------------------- arithmetic
Abs(a) == IF a < 0 THEN -a ELSE a

\* a / b rounded toward zero, b > 0.
TruncDiv(a, b) == IF a >= 0 THEN a \div b ELSE -((-a) \div b)

\* sqrt(n) rounded down, for 0 <= n < (BALL_DIAMETER * Scale)^2.
Sqrt(n) ==
    CHOOSE d \in 0 .. (BALL_DIAMETER * Scale) :
        d * d <= n /\ n < (d + 1) * (d + 1)

\* dx*dx + dy*dy < r*r; the bound on |dx| and |dy| keeps the squares small.
DistSqLess(dx, dy, r) ==
    /\ Abs(dx) < r
    /\ Abs(dy) < r
    /\ dx * dx + dy * dy < r * r

Vec2D(x, y) == [x |-> x, y |-> y]

\* ------------------------------------------------------------ setup_table
rackOrder == <<1, 9, 15, 2, 8, 14, 3, 10, 7, 13, 4, 11, 6, 12, 5>>

\* Row and column of the ballIndex-th rack slot (ballIndex counts from 0).
RackRow(ballIndex) ==
    CHOOSE row \in 0 .. 4 :
        /\ (row * (row + 1)) \div 2 <= ballIndex
        /\ ballIndex < ((row + 1) * (row + 2)) \div 2

RackCol(ballIndex) ==
    ballIndex - (RackRow(ballIndex) * (RackRow(ballIndex) + 1)) \div 2

RackSlot(ballIndex) ==
    LET startX == (SCREEN_WIDTH * 75 * Scale) \div 100
        startY == (SCREEN_HEIGHT * Scale) \div 2
        row == RackRow(ballIndex)
        col == RackCol(ballIndex)
    IN Vec2D(startX + row * ball_offset,
             startY + col * BALL_DIAMETER * Scale - row * BALL_RADIUS * Scale)

CuePosition ==
    Vec2D((SCREEN_WIDTH * 25 * Scale) \div 100, (SCREEN_HEIGHT * Scale) \div 2)

\* Where setup_table puts ball i.
RackPosition(i) ==
    IF i = 0 THEN CuePosition
    ELSE RackSlot((CHOOSE k \in 1 .. 15 : rackOrder[k] = i) - 1)

PocketLayout ==
    LET tableX == ((SCREEN_WIDTH - TABLE_WIDTH) * Scale) \div 2
        tableY == ((SCREEN_HEIGHT - TABLE_HEIGHT) * Scale) \div 2
        halfW == (TABLE_WIDTH * Scale) \div 2
        fullW == TABLE_WIDTH * Scale
        fullH == TABLE_HEIGHT * Scale
    IN << Vec2D(tableX, tableY),
          Vec2D(tableX + halfW, tableY),
          Vec2D(tableX + fullW, tableY),
          Vec2D(tableX, tableY + fullH),
          Vec2D(tableX + halfW, tableY + fullH),
          Vec2D(tableX + fullW, tableY + fullH) >>

\* setup_table without line 147: the velocities survive the reset.
setup_table_KeepsVelocity(balls) ==
    [i \in BallIds |->
        [balls[i] EXCEPT !.id = i,
                         !.isActive = TRUE,
                         !.isNaN = FALSE,
                         !.pos = RackPosition(i)]]

\* Every field of every ball is overwritten.
setup_table(balls) ==
    [i \in BallIds |->
        [balls[i] EXCEPT !.id = i,
                         !.isActive = TRUE,
                         !.isNaN = FALSE,
                         !.vel = Vec2D(0, 0),
                         !.pos = RackPosition(i)]]

BlankBall ==
    [id |-> 0, isActive |-> FALSE, isNaN |-> FALSE,
     pos |-> Vec2D(0, 0), vel |-> Vec2D(0, 0)]

Snapshot(state, balls) ==
    [state |-> state, active |-> [i \in BallIds |-> balls[i].isActive]]

\* initialize(): reset_game() over the zero-initialised globals.
Init ==
    /\ gBalls = setup_table([i \in BallIds |-> BlankBall])
    /\ gPockets = PocketLayout
    /\ gCurrentState = "STATE_AIMING"
    /\ shots = 0
    /\ lastOp = "Init"
    /\ prev = Snapshot("STATE_AIMING", [i \in BallIds |-> BlankBall])

\* ------------------------------------------------------------ handle_input
\* The guard of the shoot branch without its test of the game state.
ShootAccepted_IgnoresState(state, balls) ==
    balls[0].isActive

\* The guard of the shoot branch.
ShootAccepted(state, balls) ==
    state = "STATE_AIMING" /\ balls[0].isActive

\* The cue ball's velocity after a click at mouse = <<mouseX, mouseY>>.
ShotVelocity(cue, mouse) ==
    LET dx == mouse[1] * Scale - cue.pos.x
        dy == mouse[2] * Scale - cue.pos.y
    IN Vec2D(TruncDiv((-dx) * CUE_POWER_PER_100, 100),
             TruncDiv((-dy) * CUE_POWER_PER_100, 100))

\* handle_input on SDL_KEYDOWN with SDLK_r: reset_game().
Reset ==
    /\ gBalls' = setup_table(gBalls)
    /\ gPockets' = PocketLayout
    /\ gCurrentState' = "STATE_AIMING"
    /\ shots' = 0
    /\ lastOp' = "Reset"
    /\ prev' = Snapshot(gCurrentState, gBalls)

\* handle_input on SDL_MOUSEBUTTONDOWN with the mouse at m.
Shoot(m) ==
    /\ ShootAccepted(gCurrentState, gBalls) => shots < MaxShots
    /\ IF ShootAccepted(gCurrentState, gBalls)
       THEN /\ gBalls' = [gBalls EXCEPT ![0].vel = ShotVelocity(gBalls[0], m)]
            /\ gCurrentState' = "STATE_SIMULATING"
            /\ shots' = shots + 1
       ELSE UNCHANGED <<gBalls, gCurrentState, shots>>
    /\ lastOp' = "Shoot"
    /\ prev' = Snapshot(gCurrentState, gBalls)
    /\ UNCHANGED gPockets

\* ------------------------------------------------------------------ update
\* update() returning early only while aiming.
UpdateRuns_AlsoWhenOver(state) == state # "STATE_AIMING"

\* Whether update() runs the physics step.
UpdateRuns(state) == state = "STATE_SIMULATING"

\* The loops without their "if (!isActive) continue".
IsSkipped_Never(b) == FALSE

\* The loops' "if (!isActive) continue".
IsSkipped(b) == ~b.isActive

Friction(v) == TruncDiv(v * FRICTION_PER_1000, 1000)

\* speed < MIN_VELOCITY for velocity v.
SpeedBelowMin(v) == v.x * v.x + v.y * v.y < MIN_VELOCITY * MIN_VELOCITY

\* Steps 1-3: friction, position update, low-speed stop.
Integrate(b) ==
    IF b.isNaN THEN b
    ELSE LET v == Vec2D(Friction(b.vel.x), Friction(b.vel.y))
         IN [b EXCEPT !.pos = Vec2D(b.pos.x + v.x, b.pos.y + v.y),
                      !.vel = IF SpeedBelowMin(v) THEN Vec2D(0, 0) ELSE v]

\* Whether step 3 reports ball b (before the step) as moving.
ReportsMoving(b) ==
    b.isNaN \/ ~SpeedBelowMin(Vec2D(Friction(b.vel.x), Friction(b.vel.y)))

tableX1 == ((SCREEN_WIDTH - TABLE_WIDTH) * Scale) \div 2 + BALL_RADIUS * Scale
tableY1 == ((SCREEN_HEIGHT - TABLE_HEIGHT) * Scale) \div 2 + BALL_RADIUS * Scale
tableX2 == tableX1 + TABLE_WIDTH * Scale - BALL_DIAMETER * Scale
tableY2 == tableY1 + TABLE_HEIGHT * Scale - BALL_DIAMETER * Scale

\* Step 4: the four cushion tests, in the program's order.
Cushion(b) ==
    IF b.isNaN THEN b
    ELSE LET b1 == IF b.pos.x < tableX1
                   THEN [b EXCEPT !.pos.x = tableX1, !.vel.x = -b.vel.x] ELSE b
             b2 == IF b1.pos.x > tableX2
                   THEN [b1 EXCEPT !.pos.x = tableX2, !.vel.x = -b1.vel.x] ELSE b1
             b3 == IF b2.pos.y < tableY1
                   THEN [b2 EXCEPT !.pos.y = tableY1, !.vel.y = -b2.vel.y] ELSE b2
             b4 == IF b3.pos.y > tableY2
                   THEN [b3 EXCEPT !.pos.y = tableY2, !.vel.y = -b3.vel.y] ELSE b3
         IN b4

\* All four floats of the ball hold NaN.
NaNBall(b) == [b EXCEPT !.isNaN = TRUE, !.pos = Vec2D(0, 0), !.vel = Vec2D(0, 0)]

\* Step 5 for one pair: the body of the j loop for active balls i and j.
ResolvePair(balls, i, j) ==
    LET a == balls[i]
        c == balls[j]
        dx == c.pos.x - a.pos.x
        dy == c.pos.y - a.pos.y
    IN IF a.isNaN \/ c.isNaN THEN balls
       ELSE IF ~DistSqLess(dx, dy, BALL_DIAMETER * Scale) THEN balls
       ELSE IF dx = 0 /\ dy = 0
       THEN \* dist = 0: dx / dist is 0/0
            [balls EXCEPT ![i] = NaNBall(a), ![j] = NaNBall(c)]
       ELSE LET dist == Sqrt(dx * dx + dy * dy)
                ox == TruncDiv((BALL_DIAMETER * Scale - dist) * dx, 2 * dist)
                oy == TruncDiv((BALL_DIAMETER * Scale - dist) * dy, 2 * dist)
                p1 == TruncDiv(a.vel.x * dx + a.vel.y * dy, dist)
                p2 == TruncDiv(c.vel.x * dx + c.vel.y * dy, dist)
                ix == TruncDiv((p2 - p1) * dx, dist)
                iy == TruncDiv((p2 - p1) * dy, dist)
            IN [balls EXCEPT
                  ![i] = [a EXCEPT !.pos = Vec2D(a.pos.x - ox, a.pos.y - oy),
                                   !.vel = Vec2D(a.vel.x + ix, a.vel.y + iy)],
                  ![j] = [c EXCEPT !.pos = Vec2D(c.pos.x + ox, c.pos.y + oy),
                                   !.vel = Vec2D(c.vel.x - ix, c.vel.y - iy)]]

\* Step 5: for (j = i + 1; j < NUM_BALLS; ++j).
RECURSIVE CollisionScan(_, _, _)
CollisionScan(balls, i, j) ==
    IF j \notin DOMAIN balls THEN balls
    ELSE CollisionScan(IF IsSkipped(balls[j]) THEN balls
                       ELSE ResolvePair(balls, i, j), i, j + 1)

\* Step 6: some pocket is closer than POCKET_RADIUS to ball b.
InPocket(b, pockets) ==
    /\ ~b.isNaN
    /\ \E p \in 1 .. NUM_POCKETS :
          DistSqLess(pockets[p].x - b.pos.x, pockets[p].y - b.pos.y,
                     POCKET_RADIUS * Scale)

\* One iteration of the outer loop, on g = [balls, state, moving].
PhysicsStep(g, pockets, i) ==
    IF IsSkipped(g.balls[i]) THEN g
    ELSE LET b == g.balls[i]
             scanned == CollisionScan(
                            [g.balls EXCEPT ![i] = Cushion(Integrate(b))],
                            i, i + 1)
             pocketed == InPocket(scanned[i], pockets)
         IN [balls |-> IF pocketed
                       THEN [scanned EXCEPT ![i].isActive = FALSE]
                       ELSE scanned,
             state |-> IF pocketed /\ scanned[i].id = EIGHT_BALL
                       THEN "STATE_GAME_OVER" ELSE g.state,
             moving |-> g.moving \/ ReportsMoving(b)]

\* for (i = 0; i < NUM_BALLS; ++i).
RECURSIVE PhysicsLoop(_, _, _)
PhysicsLoop(g, pockets, i) ==
    IF i \notin DOMAIN g.balls THEN g
    ELSE PhysicsLoop(PhysicsStep(g, pockets, i), pockets, i + 1)

\* update(): the balls and the game state when it returns.
update(balls, pockets, state) ==
    IF ~UpdateRuns(state) THEN [balls |-> balls, state |-> state]
    ELSE LET g == PhysicsLoop([balls |-> balls, state |-> state,
                               moving |-> FALSE], pockets, 0)
         IN [balls |-> g.balls,
             state |-> IF ~g.moving THEN "STATE_AIMING" ELSE g.state]

\* One pass of game_loop's call of update().
Tick ==
    /\ LET r == update(gBalls, gPockets, gCurrentState)
       IN /\ gBalls' = r.balls
          /\ gCurrentState' = r.state
    /\ lastOp' = "Tick"
    /\ prev' = Snapshot(gCurrentState, gBalls)
    /\ UNCHANGED <<gPockets, shots>>

Next ==
    \/ Reset
    \/ \E m \in MousePoints : Shoot(m)
    \/ Tick

Spec == Init /\ [][Next]_vars

\* ------------------------------------------------------------------ claims
ActiveBalls == { i \in BallIds : gBalls[i].isActive }

\* C1: a tick that runs the physics step and in which the pocket check
\* deactivates ball 8 returns with the game state STATE_GAME_OVER.
C1_EightBallPocketedEndsGame ==
    [][(/\ lastOp' = "Tick"
        /\ gCurrentState = "STATE_SIMULATING"
        /\ gBalls[EIGHT_BALL].isActive
        /\ ~gBalls'[EIGHT_BALL].isActive)
       => gCurrentState' = "STATE_GAME_OVER"]_vars

\* C2: no NaN is ever written into a ball: a pair of coincident centers is
\* skipped instead of being divided by its zero distance.
C2_NoNaNWritten ==
    \A i \in BallIds : ~gBalls[i].isNaN

\* C3: between events, every two distinct active balls have their centers at
\* least BALL_DIAMETER apart.
C3_ActiveBallsSeparated ==
    \A i, j \in ActiveBalls :
        (i < j /\ ~gBalls[i].isNaN /\ ~gBalls[j].isNaN)
        => ~DistSqLess(gBalls[j].pos.x - gBalls[i].pos.x,
                       gBalls[j].pos.y - gBalls[i].pos.y,
                       BALL_DIAMETER * Scale)

\* C4: between events, the center of every active ball lies inside the inset
\* table bounds [tableX1, tableX2] x [tableY1, tableY2].
C4_ActiveBallsInBounds ==
    \A i \in ActiveBalls :
        ~gBalls[i].isNaN
        => /\ tableX1 <= gBalls[i].pos.x /\ gBalls[i].pos.x <= tableX2
           /\ tableY1 <= gBalls[i].pos.y /\ gBalls[i].pos.y <= tableY2

\* C5: a click received while the game is not aiming, or while the cue ball
\* is inactive, changes neither the game state nor any ball.
C5_ShootIgnoredUnlessAimingWithCue ==
    [][(/\ lastOp' = "Shoot"
        /\ ~(gCurrentState = "STATE_AIMING" /\ gBalls[0].isActive))
       => (gBalls' = gBalls /\ gCurrentState' = gCurrentState
           /\ gPockets' = gPockets)]_vars

\* A click arrived while the game was aiming with the cue ball pocketed.
C5_Witness ==
    /\ lastOp = "Shoot"
    /\ prev.state = "STATE_AIMING"
    /\ ~prev.active[0]
    /\ gCurrentState = "STATE_AIMING"

\* C6: from STATE_GAME_OVER a click or a tick leaves the game state and every
\* ball as they are, and a reset leads to STATE_AIMING.
C6_OverUntilReset ==
    [][gCurrentState = "STATE_GAME_OVER"
       => IF lastOp' = "Reset"
          THEN gCurrentState' = "STATE_AIMING"
          ELSE gCurrentState' = "STATE_GAME_OVER" /\ gBalls' = gBalls]_vars

\* A tick ran while the game was over, with some ball still holding a velocity.
C6_Witness ==
    /\ lastOp = "Tick"
    /\ prev.state = "STATE_GAME_OVER"
    /\ gCurrentState = "STATE_GAME_OVER"
    /\ \E i \in ActiveBalls : gBalls[i].vel # Vec2D(0, 0)

\* C7: no click and no tick re-activates an inactive ball or changes its
\* position.
C7_PocketedStaysPocketed ==
    [][lastOp' # "Reset"
       => \A i \in BallIds :
             ~gBalls[i].isActive
             => (~gBalls'[i].isActive /\ gBalls'[i].pos = gBalls[i].pos)]_vars

\* The physics step ran over a table with a pocketed ball that still holds
\* the velocity it was pocketed with, while another ball moved.
C7_Witness ==
    /\ lastOp = "Tick"
    /\ prev.state = "STATE_SIMULATING"
    /\ \E i \in BallIds :
          /\ ~prev.active[i]
          /\ gBalls[i].vel # Vec2D(0, 0)
    /\ \E j \in ActiveBalls : gBalls[j].vel # Vec2D(0, 0)

\* C8: after a reset, whatever came before it, the game is aiming, all 16
\* balls are active and at rest at their rack positions, and the six pockets
\* are at their fixed positions.
C8_ResetIsFullAndFixed ==
    lastOp = "Reset"
    => /\ gCurrentState = "STATE_AIMING"
       /\ \A i \in BallIds :
             /\ gBalls[i].id = i
             /\ gBalls[i].isActive
             /\ ~gBalls[i].isNaN
             /\ gBalls[i].vel = Vec2D(0, 0)
             /\ gBalls[i].pos = RackPosition(i)
       /\ gBalls[0].pos = Vec2D(250 * Scale, 250 * Scale)
       /\ gBalls[1].pos = Vec2D(750 * Scale, 250 * Scale)
       /\ gPockets = PocketLayout

\* A reset arrived while the game was over, with balls pocketed.
C8_Witness ==
    /\ lastOp = "Reset"
    /\ prev.state = "STATE_GAME_OVER"
    /\ \E i \in BallIds : ~prev.active[i]

\* C9: whenever the game is aiming, every active ball has velocity (0, 0).
C9_AimingIsSettled ==
    gCurrentState = "STATE_AIMING"
    => \A i \in ActiveBalls :
          ~gBalls[i].isNaN /\ gBalls[i].vel = Vec2D(0, 0)

\* C10: the game never stays in STATE_SIMULATING forever while update() keeps
\* being called.  update() is a function of the balls, the pockets and the
\* game state, so the game leaves STATE_SIMULATING after finitely many ticks
\* only if no reachable simulating state is mapped to itself by a tick.
C10_SimulationSettles ==
    gCurrentState = "STATE_SIMULATING"
    => update(gBalls, gPockets, gCurrentState)
          # [balls |-> gBalls, state |-> gCurrentState]

============================================================================
